---------------------------- MODULE Spec2Model ----------------------------
(***************************************************************************)
(* A model of hbsr (src/index.js): render a Handlebars template from a     *)
(* string (render) or from a file (render_template), with the data         *)
(* sanitized before it reaches the engine.                                 *)
(*                                                                         *)
(* src/index.js holds two revisions of the module one after the other:     *)
(*   lines   1-191  non-blocking render_template, render without a cache,  *)
(*                  sanitizeData with five chained replacements;           *)
(*   lines 193-385  blocking render_template, render with templateCache,   *)
(*                  sanitizeData with one replacement over a class.        *)
(* The later revision keeps the source's names (render_template, render,   *)
(* sanitizeData); the earlier one carries a suffix (_async, _uncached,     *)
(* _chained).                                                              *)
(*                                                                         *)
(* A JavaScript string is a sequence of characters, each a one-character   *)
(* TLA+ string; in messages and paths a run of ordinary characters that    *)
(* the program never looks into ("templates", "Template file not found: ") *)
(* is kept as one element.                                                 *)
(***************************************************************************)
EXTENDS Integers, Sequences, FiniteSets, TLC

VARIABLES
    revision,       \* which revision of index.js the process has loaded
    options,        \* module.exports.options, the process-wide configuration
    templateCache,  \* the keys of the Map templateCache (later revision)
    pending,        \* non-blocking calls whose readFile has not settled yet
    last,           \* the observation of the operation that completed last
    sanIn,          \* the value handed to sanitizeData
    sanOut,         \* what the two revisions of sanitizeData returned for it
    sanPc,          \* "start" before sanitizeData has run, "done" after
    store           \* the host's objects that have identity, by reference

vars == <<revision, options, templateCache, pending, last, sanIn, sanOut, sanPc,
          store>>

----------------------------------------------------------------------------
(* JavaScript values *)

Str(s)     == [kind |-> "string", val |-> s]
Num(s)     == [kind |-> "number", val |-> s]
Obj(f)     == [kind |-> "object", val |-> f]
Arr(q)     == [kind |-> "array", val |-> q]
Bool(b)    == [kind |-> "boolean", val |-> b]
Ref(r)     == [kind |-> "ref", val |-> r]   \* the object store[r], not a copy
Undefined  == [kind |-> "undefined", val |-> <<>>]
Null       == [kind |-> "null", val |-> <<>>]
EmptyObj   == Obj(<<>>)

\* typeof v
TypeOf(v) ==
    IF v.kind \in {"object", "array", "null", "ref"} THEN "object" ELSE v.kind

\* a default parameter (data = {}) applies when the argument is undefined
DefaultTo(v, d) == IF v.kind = "undefined" THEN d ELSE v

\* ToBoolean(v), as used by || and !
Truthy(v) ==
    CASE v.kind \in {"undefined", "null"} -> FALSE
      [] v.kind = "string" -> v.val # <<>>
      [] v.kind = "boolean" -> v.val
      [] OTHER -> TRUE

\* a || b
JsOr(a, b) == IF Truthy(a) THEN a ELSE b

\* o.k for an own property k of an object, undefined when o has none
Get(o, k) ==
    IF o.kind = "object" /\ k \in DOMAIN o.val THEN o.val[k] ELSE Undefined

WhiteSpace == {" ", "\t", "\n"}

RECURSIVE TrimStart(_)
TrimStart(s) ==
    IF s # <<>> /\ Head(s) \in WhiteSpace THEN TrimStart(Tail(s)) ELSE s

RECURSIVE TrimEnd(_)
TrimEnd(s) ==
    IF s # <<>> /\ s[Len(s)] \in WhiteSpace
    THEN TrimEnd(SubSeq(s, 1, Len(s) - 1)) ELSE s

\* String.prototype.trim
Trim(s) == TrimEnd(TrimStart(s))

----------------------------------------------------------------------------
(* sanitizeData *)

\* the characters of the class /[&<>\"']/
EscapedClass == {"&", "<", ">", "\"", "'"}

\* the table `entities` of the single-replace revision
entities_quoteAsApos(c) ==
    CASE c = "&"  -> <<"&", "#", "x", "2", "6", ";">>
      [] c = "<"  -> <<"&", "#", "x", "3", "C", ";">>
      [] c = ">"  -> <<"&", "#", "x", "3", "E", ";">>
      [] c = "\"" -> <<"&", "#", "x", "2", "7", ";">>
      [] c = "'"  -> <<"&", "#", "x", "2", "7", ";">>

entities(c) ==
    CASE c = "&"  -> <<"&", "#", "x", "2", "6", ";">>
      [] c = "<"  -> <<"&", "#", "x", "3", "C", ";">>
      [] c = ">"  -> <<"&", "#", "x", "3", "E", ";">>
      [] c = "\"" -> <<"&", "#", "x", "2", "2", ";">>
      [] c = "'"  -> <<"&", "#", "x", "2", "7", ";">>

\* data.replace(/[&<>\"']/g, function (match) { return entities[match]; })
RECURSIVE ReplaceClass(_)
ReplaceClass(s) ==
    IF s = <<>> THEN <<>>
    ELSE (IF Head(s) \in EscapedClass THEN entities(Head(s)) ELSE <<Head(s)>>)
         \o ReplaceClass(Tail(s))

ReplaceAll_firstOnly(s, c, rep) ==
    IF \E i \in 1..Len(s) : s[i] = c
    THEN LET i == CHOOSE k \in 1..Len(s) :
                      s[k] = c /\ \A j \in 1..(k - 1) : s[j] # c
         IN  SubSeq(s, 1, i - 1) \o rep \o SubSeq(s, i + 1, Len(s))
    ELSE s

\* s.replace(/c/g, rep) for a one-character pattern c
RECURSIVE ReplaceAll(_, _, _)
ReplaceAll(s, c, rep) ==
    IF s = <<>> THEN <<>>
    ELSE (IF Head(s) = c THEN rep ELSE <<Head(s)>>)
         \o ReplaceAll(Tail(s), c, rep)

ChainedReplace_ampLast(s) ==
    ReplaceAll(
      ReplaceAll(
        ReplaceAll(
          ReplaceAll(
            ReplaceAll(s, "<", <<"&", "#", "x", "3", "C", ";">>),
            ">", <<"&", "#", "x", "3", "E", ";">>),
          "\"", <<"&", "#", "x", "2", "2", ";">>),
        "'", <<"&", "#", "x", "2", "7", ";">>),
      "&", <<"&", "#", "x", "2", "6", ";">>)

\* data.replace(/&/g, ..).replace(/</g, ..).replace(/>/g, ..)
\*     .replace(/"/g, ..).replace(/'/g, ..)
ChainedReplace(s) ==
    ReplaceAll(
      ReplaceAll(
        ReplaceAll(
          ReplaceAll(
            ReplaceAll(s, "&", <<"&", "#", "x", "2", "6", ";">>),
            "<", <<"&", "#", "x", "3", "C", ";">>),
          ">", <<"&", "#", "x", "3", "E", ";">>),
        "\"", <<"&", "#", "x", "2", "2", ";">>),
      "'", <<"&", "#", "x", "2", "7", ";">>)

\* sanitizeData of the later revision (Object.entries / Object.fromEntries)
RECURSIVE sanitizeData(_)
sanitizeData(data) ==
    IF data.kind = "string" THEN Str(ReplaceClass(data.val))
    ELSE IF data.kind = "array"
    THEN Arr([i \in DOMAIN data.val |-> sanitizeData(data.val[i])])
    ELSE IF data.kind = "object"
    THEN Obj([k \in DOMAIN data.val |-> sanitizeData(data.val[k])])
    ELSE data

\* The keys that sanitized[key] = value gives the fresh object `sanitized`
\* as own properties.  An assignment finds the accessor __proto__ that
\* every plain object inherits and calls its setter, which sets or keeps
\* the prototype and defines no property; Object.fromEntries defines each
\* key as an own property, __proto__ too.
AssignedKeys(keys) == keys \ {"__proto__"}

\* sanitizeData of the earlier revision (for-in over own properties, each
\* copied by the assignment sanitized[key] = sanitizeData(data[key]))
RECURSIVE sanitizeData_chained(_)
sanitizeData_chained(data) ==
    IF data.kind = "string" THEN Str(ChainedReplace(data.val))
    ELSE IF data.kind = "array"
    THEN Arr([i \in DOMAIN data.val |-> sanitizeData_chained(data.val[i])])
    ELSE IF data.kind = "object"
    THEN Obj([k \in AssignedKeys(DOMAIN data.val) |->
                 sanitizeData_chained(data.val[k])])
    ELSE data

\* sanitizeExecOptions (both revisions)
sanitizeExecOptions(o) == o


----------------------------------------------------------------------------
(* Errors and outcomes *)

\* new Error(message) with an optional code; cause is <<>> or <<the cause>>
Err(name, code, message, cause) ==
    [name |-> name, code |-> code, message |-> message, cause |-> cause]

\* new TemplateRenderError(message, code, { cause })
TemplateRenderError(message, code, cause) ==
    Err("TemplateRenderError", code, message, cause)

Returned(t) == [how |-> "returned", err |-> <<>>, text |-> <<t>>]
Threw(e)    == [how |-> "threw", err |-> <<e>>, text |-> <<>>]

----------------------------------------------------------------------------
(* The external engine: compile(source) gives a callable or raises, the    *)
(* callable gives text or raises.  The engine is deterministic; which      *)
(* sources it rejects, and when, is the engine's business.                 *)

SrcOk      == <<"h", "i">>
SrcBlank   == <<" ", "\n">>
SrcEager   == <<"{", "#">>       \* rejected by compile itself
SrcRuntime == <<"{", "?">>       \* compiles, raises when invoked

EngineError == Err("Error", "", <<"Parse error">>, <<>>)

\* Handlebars.compile(source): TRUE when the call raises
CompileThrows(source) == source = SrcEager

\* template(context, execOptions): TRUE when the call raises
TemplateThrows(source, context, execOptions) == source = SrcRuntime

\* the text template(context, execOptions) returns
TemplateText(source, context, execOptions) ==
    [tpl |-> source, ctx |-> context, opts |-> execOptions]

----------------------------------------------------------------------------
(* render *)

InvalidSource  ==
    TemplateRenderError(<<"Invalid template source">>, "INVALID_SOURCE", <<>>)
InvalidData    ==
    TemplateRenderError(<<"Invalid data: must be an object">>, "INVALID_DATA", <<>>)
InvalidOptions ==
    TemplateRenderError(<<"Invalid options: must be an object">>,
                        "INVALID_OPTIONS", <<>>)
RenderFailed(cause) ==
    TemplateRenderError(<<"Error rendering template">>,
                        "TEMPLATE_RENDER_ERROR", <<cause>>)

\* typeof source !== 'string' || !source.trim()
SourceInvalid(source) ==
    TypeOf(source) # "string" \/ ~Truthy(Str(Trim(source.val)))

\* typeof v !== 'object' || v === null
NotAnObject(v) == TypeOf(v) # "object" \/ v.kind = "null"

\* What one call of render did: its outcome, the cache after it, the sources
\* it handed to Handlebars.compile, and the arguments of the template calls.
RenderResult(out, cache, compiled, invoked) ==
    [out |-> out, cache |-> cache, compiled |-> compiled, invoked |-> invoked]

\* the try block around the template call (both revisions)
InvokeTemplate(source, context, execOptions, cache, compiled) ==
    IF TemplateThrows(source, context, execOptions)
    THEN RenderResult(Threw(RenderFailed(EngineError)), cache, compiled,
                      <<<<context, execOptions>>>>)
    ELSE RenderResult(Returned(TemplateText(source, context, execOptions)),
                      cache, compiled, <<<<context, execOptions>>>>)

\* validateAndSanitizeInputs followed by the try block of render
ValidateThenInvoke(source, data, execOptions, cache, compiled) ==
    IF NotAnObject(data)
    THEN RenderResult(Threw(InvalidData), cache, compiled, <<>>)
    ELSE IF NotAnObject(execOptions)
    THEN RenderResult(Threw(InvalidOptions), cache, compiled, <<>>)
    ELSE InvokeTemplate(source, sanitizeData(data),
                        sanitizeExecOptions(execOptions), cache, compiled)

render_alwaysCompiles(source, dataArg, execOptionsArg, cache) ==
    LET data        == DefaultTo(dataArg, EmptyObj)
        execOptions == DefaultTo(execOptionsArg, EmptyObj)
    IN  IF SourceInvalid(source)
        THEN RenderResult(Threw(InvalidSource), cache, <<>>, <<>>)
        ELSE IF CompileThrows(source.val)
        THEN RenderResult(Threw(EngineError), cache, <<source.val>>, <<>>)
        ELSE ValidateThenInvoke(source.val, data, execOptions,
                                cache \cup {source.val}, <<source.val>>)

\* render of the later revision, with templateCache
render(source, dataArg, execOptionsArg, cache) ==
    LET data        == DefaultTo(dataArg, EmptyObj)
        execOptions == DefaultTo(execOptionsArg, EmptyObj)
    IN  IF SourceInvalid(source)
        THEN RenderResult(Threw(InvalidSource), cache, <<>>, <<>>)
        ELSE IF source.val \in cache
        THEN ValidateThenInvoke(source.val, data, execOptions, cache, <<>>)
        ELSE IF CompileThrows(source.val)
        THEN RenderResult(Threw(EngineError), cache, <<source.val>>, <<>>)
        ELSE ValidateThenInvoke(source.val, data, execOptions,
                                cache \cup {source.val}, <<source.val>>)

\* render of the earlier revision: everything inside one try block, a
\* TemplateRenderError rethrown as it is, anything else wrapped
render_uncached(source, dataArg, execOptionsArg) ==
    LET data        == DefaultTo(dataArg, EmptyObj)
        execOptions == DefaultTo(execOptionsArg, EmptyObj)
    IN  IF SourceInvalid(source)
        THEN RenderResult(Threw(InvalidSource), {}, <<>>, <<>>)
        ELSE IF NotAnObject(data)
        THEN RenderResult(Threw(InvalidData), {}, <<>>, <<>>)
        ELSE IF NotAnObject(execOptions)
        THEN RenderResult(Threw(InvalidOptions), {}, <<>>, <<>>)
        ELSE IF CompileThrows(source.val)
        THEN RenderResult(Threw(RenderFailed(EngineError)), {},
                          <<source.val>>, <<>>)
        ELSE InvokeTemplate(source.val, sanitizeData_chained(data),
                            sanitizeExecOptions(execOptions),
                            {}, <<source.val>>)

----------------------------------------------------------------------------
(* Paths and the file system *)

\* process.cwd()
CWD == <<"/", "cwd">>

IsAbsolute(p) == p # <<>> /\ Head(p) = "/"

\* path.resolve(a, b) for paths that need no normalising: the right-most
\* absolute argument wins, an empty argument is skipped, a relative result
\* is taken from the working directory
PathResolve(a, b) ==
    IF IsAbsolute(b) THEN b
    ELSE LET base == IF IsAbsolute(a) THEN a
                     ELSE IF a = <<>> THEN CWD
                     ELSE CWD \o <<"/">> \o a
         IN  IF b = <<>> THEN base ELSE base \o <<"/">> \o b

\* what readFileSync / fs.promises.readFile(path, "utf8") can do
ReadOk(text)  == [ok |-> TRUE, text |-> text, err |-> <<>>]
ReadFail(e)   == [ok |-> FALSE, text |-> <<>>, err |-> <<e>>]

ENOENT(path) ==
    Err("Error", "ENOENT",
        <<"ENOENT: no such file or directory, open '">> \o path \o <<"'">>, <<>>)
EACCES(path) ==
    Err("Error", "EACCES",
        <<"EACCES: permission denied, open '">> \o path \o <<"'">>, <<>>)
EISDIR ==
    Err("Error", "EISDIR", <<"EISDIR: illegal operation on a directory, read">>,
        <<>>)

\* The file system at the moment of a read: the file holds a text, or the
\* read fails in one of three ways.
FileHolds(text) == [kind |-> "file", text |-> text]
FileFails(code) == [kind |-> code, text |-> <<>>]

\* fs.readFileSync(path, "utf8") / await fs.promises.readFile(path, "utf8")
ReadFile(fsys, path) ==
    CASE fsys.kind = "file"   -> ReadOk(fsys.text)
      [] fsys.kind = "ENOENT" -> ReadFail(ENOENT(path))
      [] fsys.kind = "EACCES" -> ReadFail(EACCES(path))
      [] fsys.kind = "EISDIR" -> ReadFail(EISDIR)

----------------------------------------------------------------------------
(* render_template *)

InvalidBasename ==
    Err("Error", "", <<"Invalid basename: must be a non-empty string">>, <<>>)
InvalidTemplateOptions ==
    Err("Error", "", <<"Invalid options: must be an object">>, <<>>)

\* typeof basename !== 'string' || basename.trim() === ''
BasenameInvalid(basename) ==
    TypeOf(basename) # "string" \/ Trim(basename.val) = <<>>

TemplateFilename_configOnly(basename, opts, cfg) ==
    PathResolve(cfg.template_path.val,
                basename.val \o cfg.template_extension.val)

\* const templateFilename = path.resolve(
\*     options.template_path || module.exports.options.template_path,
\*     basename + (options.template_extension
\*                 || module.exports.options.template_extension));
TemplateFilename(basename, opts, cfg) ==
    PathResolve(
        JsOr(Get(opts, "template_path"), cfg.template_path).val,
        basename.val \o
        JsOr(Get(opts, "template_extension"), cfg.template_extension).val)

CatchClause_noMessage(error, templateFilename) ==
    IF error.code = "ENOENT"
    THEN Err("Error", "",
             <<"Template file not found: ">> \o templateFilename, <<>>)
    ELSE Err("Error", "", <<"Error reading template file: ">>, <<>>)

CatchClause_noCodeTest(error, templateFilename) ==
    Err("Error", "", <<"Error reading template file: ">> \o error.message, <<>>)

\* catch (error) { if (error.code === 'ENOENT') throw new Error(`Template
\* file not found: ${templateFilename}`); throw new Error(`Error reading
\* template file: ${error.message}`); }
CatchClause(error, templateFilename) ==
    IF error.code = "ENOENT"
    THEN Err("Error", "",
             <<"Template file not found: ">> \o templateFilename, <<>>)
    ELSE Err("Error", "",
             <<"Error reading template file: ">> \o error.message, <<>>)

\* What one call of render_template did: its outcome, the cache after it,
\* the paths it handed to the read primitive, the arguments of its calls of
\* render, and what render handed to the engine.
TemplateResult(out, cache, reads, renders, compiled, invoked) ==
    [out |-> out, cache |-> cache, reads |-> reads, renders |-> renders,
     compiled |-> compiled, invoked |-> invoked]

\* the try block once the read has settled with `read`; r is what render
\* does with the file's text
TryBlock(read, templateFilename, renderArgs, r, cache) ==
    IF ~read.ok
    THEN TemplateResult(Threw(CatchClause(read.err[1], templateFilename)),
                        cache, <<templateFilename>>, <<>>, <<>>, <<>>)
    ELSE TemplateResult(
             IF r.out.how = "threw"
             THEN Threw(CatchClause(r.out.err[1], templateFilename))
             ELSE r.out,
             r.cache, <<templateFilename>>, <<renderArgs>>,
             r.compiled, r.invoked)

Prologue_optionsFirst(basename, opts) ==
    IF NotAnObject(opts) THEN <<InvalidTemplateOptions>>
    ELSE IF BasenameInvalid(basename) THEN <<InvalidBasename>>
    ELSE <<>>

\* the checks of basename and options that open render_template
Prologue(basename, opts) ==
    IF BasenameInvalid(basename) THEN <<InvalidBasename>>
    ELSE IF NotAnObject(opts) THEN <<InvalidTemplateOptions>>
    ELSE <<>>

\* render_template of the later revision: readFileSync, module.exports.render
render_template(basename, dataArg, optionsArg, cfg, cache, fsys) ==
    LET data == DefaultTo(dataArg, EmptyObj)
        opts == DefaultTo(optionsArg, EmptyObj)
    IN  IF Prologue(basename, opts) # <<>>
        THEN TemplateResult(Threw(Prologue(basename, opts)[1]), cache,
                            <<>>, <<>>, <<>>, <<>>)
        ELSE LET templateFilename == TemplateFilename(basename, opts, cfg)
                 read == ReadFile(fsys, templateFilename)
                 text == Str(read.text)
             IN  TryBlock(read, templateFilename, <<text, data, opts>>,
                          render(text, data, opts, cache), cache)

\* render_template of the earlier revision, up to the await: the promise is
\* rejected at once, or the call suspends with the read of templateFilename
\* issued
render_template_async_start(basename, dataArg, optionsArg, cfg) ==
    LET data == DefaultTo(dataArg, EmptyObj)
        opts == DefaultTo(optionsArg, EmptyObj)
    IN  IF Prologue(basename, opts) # <<>>
        THEN [rejected |-> Prologue(basename, opts), suspended |-> <<>>]
        ELSE [rejected |-> <<>>,
              suspended |-> <<[basename |-> basename, data |-> data,
                               options |-> opts, cfg |-> cfg,
                               templateFilename |->
                                   TemplateFilename(basename, opts, cfg)]>>]

render_template_async_resume_rereads(p, fsys) ==
    LET templateFilename == TemplateFilename(p.basename, p.options, options)
        read == ReadFile(fsys, templateFilename)
        text == Str(read.text)
    IN  TryBlock(read, templateFilename, <<text, p.data, p.options>>,
                 render_uncached(text, p.data, p.options), {})

\* ... and from the await on, for the suspended call p, once the read has
\* settled
render_template_async_resume(p, fsys) ==
    LET read == ReadFile(fsys, p.templateFilename)
        text == Str(read.text)
    IN  TryBlock(read, p.templateFilename, <<text, p.data, p.options>>,
                 render_uncached(text, p.data, p.options), {})

\* the whole non-blocking call, for a read that settles with fsys
render_template_async(basename, dataArg, optionsArg, cfg, fsys) ==
    LET s == render_template_async_start(basename, dataArg, optionsArg, cfg)
    IN  IF s.rejected # <<>>
        THEN TemplateResult(Threw(s.rejected[1]), {}, <<>>, <<>>, <<>>, <<>>)
        ELSE render_template_async_resume(s.suspended[1], fsys)

\* an async function delivers its outcome through the promise it returns
Promise(out) ==
    [out EXCEPT !.how = IF @ = "returned" THEN "resolved" ELSE "rejected"]

\* what the caller of a promise-returning call observes once it has settled
Settled(out) ==
    [out EXCEPT !.how = IF @ = "resolved" THEN "returned"
                        ELSE IF @ = "rejected" THEN "threw" ELSE @]

----------------------------------------------------------------------------
(* Objects with identity.  A value Obj(f) or Arr(q) above stands for a     *)
(* tree by its content.  Whether a call writes into its caller's objects,  *)
(* and what happens when an object contains itself, depends on identity:   *)
(* store is a sequence of objects and arrays whose members are primitive   *)
(* values or references Ref(r) to store[r]; creating an object appends to  *)
(* the store.                                                              *)

StackLimit == 4     \* nested calls the platform's call stack holds

\* RangeError: Maximum call stack size exceeded
StackOverflow ==
    Err("RangeError", "", <<"Maximum call stack size exceeded">>, <<>>)

\* the object a reference leads to, a primitive value as it is
Deref(st, v) == IF v.kind = "ref" THEN st[v.val] ELSE v

\* the own keys of a mapping in the order they are visited
RECURSIVE KeySeq(_)
KeySeq(keys) ==
    IF keys = {} THEN <<>>
    ELSE LET k == CHOOSE x \in keys : TRUE
         IN  <<k>> \o KeySeq(keys \ {k})

Allocate_inPlace(st, v, kind) == [store |-> st, ref |-> v.val]

\* {} / the array data.map creates / the object Object.fromEntries creates:
\* a new object, at a reference nothing else holds
Allocate(st, v, kind) ==
    [store |-> Append(st, [kind |-> kind, val |-> <<>>]), ref |-> Len(st) + 1]

\* what a call of sanitizeData did: ok is FALSE when it ended in a
\* RangeError, val is what it returned, store the objects after it
Sanitized(ok, st, v) == [ok |-> ok, store |-> st, val |-> v]

\* sanitizeData over the store, as the call at nesting `depth`; rev is the
\* revision.  sanitizeEach is data.map(sanitizeData) / the loop over the
\* keys: the members in order, each seeing the store the previous one left.
RECURSIVE sanitizeStored(_, _, _, _), sanitizeEach(_, _, _, _)
sanitizeStored(rev, st, data, depth) ==
    IF depth > StackLimit THEN Sanitized(FALSE, st, Undefined)
    ELSE IF data.kind = "string"
    THEN Sanitized(TRUE, st,
                   IF rev = "blocking" THEN Str(ReplaceClass(data.val))
                   ELSE Str(ChainedReplace(data.val)))
    ELSE IF data.kind # "ref" THEN Sanitized(TRUE, st, data)
    ELSE IF st[data.val].kind = "array"
    THEN LET a == Allocate(st, data, "array")
             e == sanitizeEach(rev, a.store, st[data.val].val, depth + 1)
         IN  IF ~e.ok THEN Sanitized(FALSE, e.store, Undefined)
             ELSE Sanitized(TRUE, [e.store EXCEPT ![a.ref] = Arr(e.vals)],
                            Ref(a.ref))
    ELSE LET keys == KeySeq(DOMAIN st[data.val].val)
             at(k) == CHOOSE i \in 1..Len(keys) : keys[i] = k
             members == [i \in 1..Len(keys) |-> st[data.val].val[keys[i]]]
         IN  IF rev = "blocking"
             THEN \* Object.fromEntries(Object.entries(data).map(...))
                  LET e == sanitizeEach(rev, st, members, depth + 1)
                      a == Allocate(e.store, data, "object")
                  IN  IF ~e.ok THEN Sanitized(FALSE, e.store, Undefined)
                      ELSE Sanitized(TRUE,
                               [a.store EXCEPT ![a.ref] =
                                   Obj([k \in DOMAIN st[data.val].val |->
                                           e.vals[at(k)]])],
                               Ref(a.ref))
             ELSE \* const sanitized = {}; for (const key in data) ...
                  LET a == Allocate(st, data, "object")
                      e == sanitizeEach(rev, a.store, members, depth + 1)
                  IN  IF ~e.ok THEN Sanitized(FALSE, e.store, Undefined)
                      ELSE Sanitized(TRUE,
                               [e.store EXCEPT ![a.ref] =
                                   Obj([k \in AssignedKeys(
                                                 DOMAIN st[data.val].val) |->
                                           e.vals[at(k)]])],
                               Ref(a.ref))

sanitizeEach(rev, st, members, depth) ==
    IF Len(members) = 0 THEN [ok |-> TRUE, store |-> st, vals |-> <<>>]
    ELSE LET h == sanitizeStored(rev, st, members[1], depth)
         IN  IF ~h.ok THEN [ok |-> FALSE, store |-> h.store, vals |-> <<>>]
             ELSE LET t == sanitizeEach(rev, h.store,
                                        SubSeq(members, 2, Len(members)), depth)
                  IN  [ok |-> t.ok, store |-> t.store,
                       vals |-> <<h.val>> \o t.vals]

\* What a call did, with the store it left and how its sanitizeData call
\* ended: "none" when it was not reached, "returned" or "raised".
StoredResult(r, st, san) == [store |-> st, sanitize |-> san] @@ r

\* template(sanitizeData(data), sanitizeExecOptions(execOptions)) inside
\* its try block
SanitizeThenInvoke(rev, source, data, execOptions, cache, compiled, st) ==
    LET s == sanitizeStored(rev, st, data, 1)
    IN  IF ~s.ok
        THEN StoredResult(
                 RenderResult(Threw(RenderFailed(StackOverflow)), cache,
                              compiled, <<>>),
                 s.store, "raised")
        ELSE StoredResult(
                 InvokeTemplate(source, s.val, sanitizeExecOptions(execOptions),
                                cache, compiled),
                 s.store, "returned")

\* render of the later revision, with data and options given and held by
\* reference
render_stored(source, data, execOptions, cache, st) ==
    IF SourceInvalid(source)
    THEN StoredResult(RenderResult(Threw(InvalidSource), cache, <<>>, <<>>),
                      st, "none")
    ELSE IF source.val \notin cache /\ CompileThrows(source.val)
    THEN StoredResult(RenderResult(Threw(EngineError), cache, <<source.val>>,
                                   <<>>), st, "none")
    ELSE LET compiled == IF source.val \in cache THEN <<>> ELSE <<source.val>>
             cached   == cache \cup {source.val}
         IN  IF NotAnObject(data)
             THEN StoredResult(RenderResult(Threw(InvalidData), cached,
                                            compiled, <<>>), st, "none")
             ELSE IF NotAnObject(execOptions)
             THEN StoredResult(RenderResult(Threw(InvalidOptions), cached,
                                            compiled, <<>>), st, "none")
             ELSE SanitizeThenInvoke("blocking", source.val, data, execOptions,
                                     cached, compiled, st)

\* render of the earlier revision, likewise
render_uncached_stored(source, data, execOptions, st) ==
    IF SourceInvalid(source)
    THEN StoredResult(RenderResult(Threw(InvalidSource), {}, <<>>, <<>>),
                      st, "none")
    ELSE IF NotAnObject(data)
    THEN StoredResult(RenderResult(Threw(InvalidData), {}, <<>>, <<>>),
                      st, "none")
    ELSE IF NotAnObject(execOptions)
    THEN StoredResult(RenderResult(Threw(InvalidOptions), {}, <<>>, <<>>),
                      st, "none")
    ELSE LET s == sanitizeStored("nonblocking", st, data, 1)
         IN  IF ~s.ok
             THEN StoredResult(
                      RenderResult(Threw(RenderFailed(StackOverflow)), {},
                                   <<>>, <<>>),
                      s.store, "raised")
             ELSE IF CompileThrows(source.val)
             THEN StoredResult(
                      RenderResult(Threw(RenderFailed(EngineError)), {},
                                   <<source.val>>, <<>>),
                      s.store, "returned")
             ELSE StoredResult(
                      InvokeTemplate(source.val, s.val,
                                     sanitizeExecOptions(execOptions), {},
                                     <<source.val>>),
                      s.store, "returned")

\* render_template of either revision from its first line to its last (a
\* non-blocking call together with the settling of its read), with data
\* and options given and held by reference
render_template_stored(rev, basename, data, opts, cfg, cache, fsys, st) ==
    IF Prologue(basename, opts) # <<>>
    THEN StoredResult(
             TemplateResult(Threw(Prologue(basename, opts)[1]), cache,
                            <<>>, <<>>, <<>>, <<>>),
             st, "none")
    ELSE LET templateFilename ==
                 TemplateFilename(basename, Deref(st, opts), cfg)
             read == ReadFile(fsys, templateFilename)
             text == Str(read.text)
             r == IF rev = "blocking"
                  THEN render_stored(text, data, opts, cache, st)
                  ELSE render_uncached_stored(text, data, opts, st)
         IN  StoredResult(
                 TryBlock(read, templateFilename, <<text, data, opts>>, r,
                          cache),
                 IF read.ok THEN r.store ELSE st,
                 IF read.ok THEN r.sanitize ELSE "none")

----------------------------------------------------------------------------
(* The state machine: a host process that has loaded one revision of the   *)
(* module calls its exports and writes its configuration.                  *)
(*                                                                         *)
(* Spec is the host that renders template files (render_template and the   *)
(* configuration), RenderSpec the host that renders strings (render).      *)
(* render reads and writes nothing but templateCache, which the calls of   *)
(* render_template fill in the same way, so leaving render out of Spec     *)
(* removes no reachable configuration, cache or set of pending reads.      *)
(* OverlapSpec is the host of the earlier revision with several reads      *)
(* pending, SanSpec and TreeSpec apply sanitizeData to drawn strings and   *)
(* trees, and StoreSpec is the host that passes objects it holds by        *)
(* reference.                                                              *)

MaxPending == 1     \* non-blocking calls in flight at once

Revisions == {"nonblocking", "blocking"}

\* arguments of render
SourceArgs ==
    {Undefined, Num(<<"1", "2", "3">>), Str(<<>>), Str(SrcBlank),
     Str(SrcOk), Str(SrcEager), Str(SrcRuntime)}

SomeData == Obj([name |-> Str(<<"<", "b", ">">>)])

DataArgs == {Undefined, Null, Str(<<"s">>), SomeData}

ExecOptionArgs ==
    {Undefined, Null, Str(<<"s">>), Obj([noEscape |-> Str(<<"1">>)])}

\* arguments of render_template
BadBasenames == {Num(<<"1", "2">>), Str(<<>>), Str(<<" ">>)}

SomeBasename == Str(<<"page">>)

DirOnly == Obj([template_path |-> Str(<<"X">>),
                template_extension |-> Str(<<>>)])
ExtOnly == Obj([template_path |-> Str(<<>>),
                template_extension |-> Str(<<".y">>)])

NullDir == Obj([template_path |-> Null])

TemplateCalls ==
    (BadBasenames \X {SomeData} \X {Undefined, Null})
    \cup ({SomeBasename} \X {Null, SomeData}
          \X {Undefined, Null, Str(<<"s">>), DirOnly, ExtOnly, NullDir})
    \cup {<<SomeBasename, Undefined, Undefined>>}

FileSystems ==
    {FileHolds(t) : t \in {SrcOk, SrcBlank, SrcEager, SrcRuntime}}
    \cup {FileFails(c) : c \in {"ENOENT", "EACCES", "EISDIR"}}

\* module.exports.options as the module defines it
DefaultOptions ==
    [template_path |-> Str(<<"templates">>),
     template_extension |-> Str(<<".hbs">>)]

\* the values the host gives the configuration
Configurations ==
    {DefaultOptions,
     [DefaultOptions EXCEPT !.template_path = Str(<<"views">>)],
     [DefaultOptions EXCEPT !.template_extension = Str(<<>>)]}

NoResult == TemplateResult(Returned(<<>>), {}, <<>>, <<>>, <<>>, <<>>)

\* the record kept of a completed operation: which export, its arguments,
\* the configuration and cache it started from, the file system its read
\* met (<<>> when it read nothing) and what it did
Observation(op, args, cfg, cache, fsys, res) ==
    [op |-> op, args |-> args, cfg |-> cfg, cacheBefore |-> cache,
     fsys |-> fsys, res |-> res]

Init ==
    /\ revision \in Revisions
    /\ options = DefaultOptions
    /\ templateCache = {}
    /\ pending = {}
    /\ last = Observation("none", <<>>, DefaultOptions, {}, <<>>, NoResult)
    /\ sanIn = Undefined
    /\ sanOut = <<>>
    /\ sanPc = "idle"
    /\ store = <<>>

\* the host assigns to hbsr.options.template_path / template_extension
SetOptions ==
    /\ \E cfg \in Configurations :
         /\ cfg # options
         /\ options' = cfg
         /\ last' = Observation("set_options", <<>>, cfg, templateCache,
                                <<>>, NoResult)
    /\ UNCHANGED <<revision, templateCache, pending, sanIn, sanOut, sanPc, store>>

\* render(source, data, options) of the later revision
CallRender ==
    /\ revision = "blocking"
    /\ \E source \in SourceArgs, data \in DataArgs, opts \in ExecOptionArgs :
         LET r == render(source, data, opts, templateCache)
         IN  /\ templateCache' = r.cache
             /\ last' = Observation("render", <<source, data, opts>>, options,
                            templateCache, <<>>,
                            TemplateResult(r.out, r.cache, <<>>, <<>>,
                                           r.compiled, r.invoked))
    /\ UNCHANGED <<revision, options, pending, sanIn, sanOut, sanPc, store>>

\* render(source, data, options) of the earlier revision
CallRenderUncached ==
    /\ revision = "nonblocking"
    /\ \E source \in SourceArgs, data \in DataArgs, opts \in ExecOptionArgs :
         LET r == render_uncached(source, data, opts)
         IN  last' = Observation("render", <<source, data, opts>>, options,
                         {}, <<>>,
                         TemplateResult(r.out, {}, <<>>, <<>>,
                                        r.compiled, r.invoked))
    /\ UNCHANGED <<revision, options, templateCache, pending,
                   sanIn, sanOut, sanPc, store>>

\* render_template(basename, data, options) of the later revision
CallRenderTemplate ==
    /\ revision = "blocking"
    /\ \E call \in TemplateCalls, fsys \in FileSystems :
         LET r == render_template(call[1], call[2], call[3], options,
                                  templateCache, fsys)
         IN  /\ templateCache' = r.cache
             /\ last' = Observation("render_template", call, options,
                            templateCache,
                            IF r.reads = <<>> THEN <<>> ELSE <<fsys>>, r)
    /\ UNCHANGED <<revision, options, pending, sanIn, sanOut, sanPc, store>>

\* render_template(basename, data, options) of the earlier revision, up to
\* the await, for a call drawn from `calls` while fewer than `limit` reads
\* are pending
StartAsync(calls, limit) ==
    /\ revision = "nonblocking"
    /\ \E call \in calls :
         LET s == render_template_async_start(call[1], call[2], call[3],
                                              options)
         IN  IF s.rejected # <<>>
             THEN /\ last' = Observation("render_template", call, options,
                                 {}, <<>>,
                                 TemplateResult(Promise(Threw(s.rejected[1])),
                                                {}, <<>>, <<>>, <<>>, <<>>))
                  /\ UNCHANGED pending
             ELSE /\ Cardinality(pending) < limit
                  /\ pending' = pending \cup {[call |-> call] @@ s.suspended[1]}
                  /\ UNCHANGED last
    /\ UNCHANGED <<revision, options, templateCache, sanIn, sanOut, sanPc, store>>

StartRenderTemplateAsync == StartAsync(TemplateCalls, MaxPending)

\* the read of a suspended call settles and the call runs to its end
ReadSettles ==
    /\ revision = "nonblocking"
    /\ \E p \in pending, fsys \in FileSystems :
         LET r == render_template_async_resume(p, fsys)
         IN  /\ pending' = pending \ {p}
             /\ last' = Observation("render_template", p.call, p.cfg, {},
                            <<fsys>>, [r EXCEPT !.out = Promise(@)])
    /\ UNCHANGED <<revision, options, templateCache, sanIn, sanOut, sanPc, store>>

Next ==
    \/ SetOptions
    \/ CallRenderTemplate
    \/ StartRenderTemplateAsync
    \/ ReadSettles

Spec == Init /\ [][Next]_vars

----------------------------------------------------------------------------
(* Calls that overlap: OverlapSpec is the host of the earlier revision that *)
(* starts a call, or writes the configuration, while reads are pending.    *)

MaxOverlap == 2     \* non-blocking calls in flight at once

OverlapCalls ==
    {<<SomeBasename, SomeData, Undefined>>,
     <<SomeBasename, SomeData, DirOnly>>,
     <<Str(<<"other">>), SomeData, Undefined>>,
     <<Str(<<" ">>), SomeData, Undefined>>}

OverlapInit == Init /\ revision = "nonblocking"

StartOverlapping == StartAsync(OverlapCalls, MaxOverlap)

OverlapNext ==
    \/ SetOptions
    \/ StartOverlapping
    \/ ReadSettles

OverlapSpec == OverlapInit /\ [][OverlapNext]_vars

----------------------------------------------------------------------------

RenderNext ==
    \/ CallRender
    \/ CallRenderUncached

RenderSpec == Init /\ [][RenderNext]_vars

----------------------------------------------------------------------------
(* sanitizeData as a pure function: SanSpec draws a string and applies     *)
(* both revisions to it.                                                   *)

MaxPieces == 3      \* pieces a drawn string is made of

\* the five escaped characters, an ordinary one, and two pieces that look
\* like (part of) an entity already
Pieces ==
    {<<"&">>, <<"<">>, <<">">>, <<"\"">>, <<"'">>, <<"a">>,
     <<"#", "x", "2", "6", ";">>, <<"&", "#", "x", "3", "C", ";">>}

RECURSIVE StringsOf(_)
StringsOf(n) ==
    IF n = 0 THEN {<<>>}
    ELSE StringsOf(n - 1)
         \cup {s \o p : s \in StringsOf(n - 1), p \in Pieces}

SanInit ==
    /\ revision = "blocking"
    /\ options = DefaultOptions
    /\ templateCache = {}
    /\ pending = {}
    /\ last = Observation("none", <<>>, DefaultOptions, {}, <<>>, NoResult)
    /\ sanIn \in {Str(s) : s \in StringsOf(MaxPieces)}
    /\ sanOut = <<>>
    /\ sanPc = "start"
    /\ store = <<>>

Sanitize ==
    /\ sanPc = "start"
    /\ sanOut' = [single |-> sanitizeData(sanIn),
                  chained |-> sanitizeData_chained(sanIn)]
    /\ sanPc' = "done"
    /\ UNCHANGED <<revision, options, templateCache, pending, last, sanIn, store>>

SanNext == Sanitize

SanSpec == SanInit /\ [][SanNext]_vars

----------------------------------------------------------------------------
(* sanitizeData over data trees: TreeSpec draws a tree of mappings,        *)
(* sequences and leaves and applies both revisions to it.                  *)

MaxDepth == 2       \* containers nested in a drawn tree

Leaves == {Str(<<"<", "a", "&">>), Num(<<"7">>), Bool(FALSE), Null}

\* the keys of the drawn mappings: an ordinary one, one that holds escaped
\* characters, and the one JSON.parse('{"__proto__": ...}') gives
Keys == {"k", "<k>", "__proto__"}

\* a mapping with the keys ks, the subtree t under k0 and a string elsewhere
MappingWith(ks, k0, t) ==
    Obj([k \in ks |-> IF k = k0 THEN t ELSE Str(<<"'">>)])

RECURSIVE Trees(_)
Trees(d) ==
    IF d = 0 THEN Leaves
    ELSE Trees(d - 1)
         \cup {Arr(<<>>), Obj([k \in {} |-> Null])}
         \cup {Arr(<<t>>) : t \in Trees(d - 1)}
         \cup {Arr(<<l, t>>) : l \in Leaves, t \in Trees(d - 1)}
         \cup {MappingWith(ks, k0, t) :
                  ks \in SUBSET Keys, k0 \in Keys, t \in Trees(d - 1)}

TreeInit ==
    /\ revision = "blocking"
    /\ options = DefaultOptions
    /\ templateCache = {}
    /\ pending = {}
    /\ last = Observation("none", <<>>, DefaultOptions, {}, <<>>, NoResult)
    /\ sanIn \in Trees(MaxDepth)
    /\ sanOut = <<>>
    /\ sanPc = "start"
    /\ store = <<>>

TreeSpec == TreeInit /\ [][SanNext]_vars

----------------------------------------------------------------------------
(* The host that hands its own objects to render and render_template:      *)
(* StoreSpec starts from a store the host has built and calls both exports *)
(* with references into it.                                                *)

\* a tree: a mapping with a string and a sequence of leaves; and a mapping
\* fit to be options
StoreTree ==
    <<Obj([name |-> Str(<<"<", "b", ">">>), list |-> Ref(2)]),
      Arr(<<Str(<<"&">>), Num(<<"7">>)>>),
      Obj([noEscape |-> Str(<<"<", "1", ">">>)])>>

\* d.self = d
StoreSelf ==
    <<Obj([self |-> Ref(1), name |-> Str(<<"<">>)]),
      Obj([template_path |-> Str(<<"X">>)])>>

\* d.list = [d]: d contains itself through a descendant; and a sequence
\* that contains itself
StoreLoop ==
    <<Obj([list |-> Ref(2)]), Arr(<<Ref(1)>>), Arr(<<Str(<<"'">>), Ref(3)>>)>>

\* the same sequence under two keys
StoreShared ==
    <<Obj([a |-> Ref(2), b |-> Ref(2)]), Arr(<<Str(<<"'">>)>>)>>

Stores == {StoreTree, StoreSelf, StoreLoop, StoreShared}

\* what the host passes as data or options: one of its objects, or a value
\* that is no object
StoredArgs(st) == {Null, Str(<<"s">>)} \cup {Ref(r) : r \in 1..Len(st)}

StoredSources == {Str(SrcBlank), Str(SrcOk), Str(SrcRuntime)}

StoredBasenames == {Str(<<" ">>), SomeBasename}

StoredFileSystems ==
    {FileHolds(SrcOk), FileHolds(SrcRuntime), FileFails("ENOENT")}

StoreInit ==
    /\ revision \in Revisions
    /\ options = DefaultOptions
    /\ templateCache = {}
    /\ pending = {}
    /\ last = Observation("none", <<>>, DefaultOptions, {}, <<>>, NoResult)
    /\ sanIn = Undefined
    /\ sanOut = <<>>
    /\ sanPc = "idle"
    /\ store \in Stores

\* the objects a call created are unreachable once it has ended: the store
\* is again the host's objects, as the call left them
Collect(st, n) == SubSeq(st, 1, n)

\* render(source, data, options) with the host's objects
CallRenderStored ==
    /\ \E source \in StoredSources, data \in StoredArgs(store),
          opts \in StoredArgs(store) :
         LET r == IF revision = "blocking"
                  THEN render_stored(source, data, opts, templateCache, store)
                  ELSE render_uncached_stored(source, data, opts, store)
         IN  /\ templateCache' = r.cache
             /\ store' = Collect(r.store, Len(store))
             /\ last' = Observation("render", <<source, data, opts>>, options,
                            templateCache, <<>>,
                            StoredResult(
                                TemplateResult(r.out, r.cache, <<>>, <<>>,
                                               r.compiled, r.invoked),
                                r.store, r.sanitize))
    /\ UNCHANGED <<revision, options, pending, sanIn, sanOut, sanPc>>

\* render_template(basename, data, options) with the host's objects
CallRenderTemplateStored ==
    /\ \E basename \in StoredBasenames, data \in StoredArgs(store),
          opts \in StoredArgs(store), fsys \in StoredFileSystems :
         LET r == render_template_stored(revision, basename, data, opts,
                                         options, templateCache, fsys, store)
         IN  /\ templateCache' = r.cache
             /\ store' = Collect(r.store, Len(store))
             /\ last' = Observation("render_template",
                            <<basename, data, opts>>, options, templateCache,
                            IF r.reads = <<>> THEN <<>> ELSE <<fsys>>,
                            IF revision = "blocking" THEN r
                            ELSE [r EXCEPT !.out = Promise(@)])
    /\ UNCHANGED <<revision, options, pending, sanIn, sanOut, sanPc>>

StoreNext ==
    \/ CallRenderStored
    \/ CallRenderTemplateStored

StoreSpec == StoreInit /\ [][StoreNext]_vars

----------------------------------------------------------------------------
(* The claims about the sanitizer's strings *)

\* the entity the specification fixes for each escaped character
FixedEntity(c) ==
    CASE c = "&"  -> <<"&", "#", "x", "2", "6", ";">>
      [] c = "<"  -> <<"&", "#", "x", "3", "C", ";">>
      [] c = ">"  -> <<"&", "#", "x", "3", "E", ";">>
      [] c = "\"" -> <<"&", "#", "x", "2", "2", ";">>
      [] c = "'"  -> <<"&", "#", "x", "2", "7", ";">>

FiveCharacters == {"&", "<", ">", "\"", "'"}

\* where the image of s[i] starts in the output of one left-to-right pass:
\* every earlier character takes one place, or six when it is escaped
PlaceOf(s, i) ==
    (i - 1) + 5 * Cardinality({j \in 1..(i - 1) : s[j] \in FiveCharacters})

\* out is s with each of the five characters replaced by its entity and
\* every other character kept in place and in order
OnePass(s, out) ==
    /\ Len(out) = PlaceOf(s, Len(s) + 1)
    /\ \A i \in 1..Len(s) :
         SubSeq(out, PlaceOf(s, i) + 1, PlaceOf(s, i + 1))
           = IF s[i] \in FiveCharacters THEN FixedEntity(s[i]) ELSE <<s[i]>>

\* C9: for every string s, both revisions of sanitizeData (the chained
\* replacements and the single replacement over the class) return s with
\* each & < > " ' replaced by its fixed entity and all else kept in place,
\* as one non-overlapping left-to-right pass: an & that a replacement
\* introduced is not escaped again; the two revisions agree.
C9_SanitizeIsOnePass ==
    sanPc = "done" =>
        /\ sanOut.single.kind = "string"
        /\ OnePass(sanIn.val, sanOut.single.val)
        /\ OnePass(sanIn.val, sanOut.chained.val)
        /\ sanOut.single = sanOut.chained

\* a string with an & ahead of another escaped character has been sanitized
C9_Witness ==
    /\ sanPc = "done"
    /\ \E i, j \in 1..Len(sanIn.val) :
         i < j /\ sanIn.val[i] = "&" /\ sanIn.val[j] = "<"
    /\ Len(sanOut.chained.val) > Len(sanIn.val)

\* decoding: one left-to-right pass that turns each of the five entities
\* back into its character
RECURSIVE DecodeEntities(_)
DecodeEntities(t) ==
    IF t = <<>> THEN <<>>
    ELSE IF \E c \in FiveCharacters :
              Len(t) >= 6 /\ SubSeq(t, 1, 6) = FixedEntity(c)
    THEN <<CHOOSE c \in FiveCharacters : SubSeq(t, 1, 6) = FixedEntity(c)>>
         \o DecodeEntities(SubSeq(t, 7, Len(t)))
    ELSE <<Head(t)>> \o DecodeEntities(Tail(t))

\* C10: round trip: decoding the five entities in sanitize(s) gives s back,
\* for both revisions; and no other string (of fewer pieces than the bound)
\* has the image of s, that is, sanitize is injective.
C10_RoundTrip ==
    sanPc = "done" =>
        /\ DecodeEntities(sanOut.single.val) = sanIn.val
        /\ DecodeEntities(sanOut.chained.val) = sanIn.val
        /\ \A t \in StringsOf(MaxPieces - 1) :
             sanitizeData(Str(t)) = sanOut.single => t = sanIn.val

\* a string that already holds the text of an entity, and the two quote
\* characters, has been sanitized
C10_Witness ==
    /\ sanPc = "done"
    /\ \E i \in 1..Len(sanIn.val) :
         /\ i + 5 <= Len(sanIn.val)
         /\ SubSeq(sanIn.val, i, i + 5) = FixedEntity("<")
    /\ \E i \in 1..Len(sanIn.val) : sanIn.val[i] \in {"\"", "'"}
    /\ sanOut.single.val # sanIn.val

\* t[i] is one of the five characters and does not open an entity
RawAt(t, i) ==
    /\ t[i] \in FiveCharacters
    /\ ~\E c \in FiveCharacters :
          i + 5 <= Len(t) /\ SubSeq(t, i, i + 5) = FixedEntity(c)

NoRawCharacter(t) == \A i \in 1..Len(t) : ~RawAt(t, i)

\* C11: for every string s that holds any of & < > " ', sanitize(s) holds
\* no raw occurrence of the five characters, in both revisions: < > " ' do
\* not occur in it at all, and every & in it opens one of the five entities.
C11_NoRawCharacter ==
    sanPc = "done" /\ (\E i \in 1..Len(sanIn.val) : sanIn.val[i] \in FiveCharacters)
    => /\ NoRawCharacter(sanOut.single.val)
       /\ NoRawCharacter(sanOut.chained.val)
       /\ \A i \in 1..Len(sanOut.single.val) :
            sanOut.single.val[i] \notin {"<", ">", "\"", "'"}
       /\ \A i \in 1..Len(sanOut.chained.val) :
            sanOut.chained.val[i] \notin {"<", ">", "\"", "'"}

\* a string that holds the same escaped character twice, and an &, has been
\* sanitized
C11_Witness ==
    /\ sanPc = "done"
    /\ \E i, j \in 1..Len(sanIn.val) :
         i < j /\ sanIn.val[i] = "'" /\ sanIn.val[j] = "'"
    /\ \E i \in 1..Len(sanIn.val) : sanIn.val[i] = "&"
    /\ Len(sanOut.single.val) >= 18

\* s is d with every string leaf sanitized and nothing else changed: the
\* same keys under every mapping, the same length and order in every
\* sequence, the same number, boolean or null at every other leaf
RECURSIVE ShapeKept(_, _)
ShapeKept(d, s) ==
    CASE d.kind = "string" ->
           s.kind = "string" /\ OnePass(d.val, s.val)
      [] d.kind = "array" ->
           /\ s.kind = "array"
           /\ Len(s.val) = Len(d.val)
           /\ \A i \in 1..Len(d.val) : ShapeKept(d.val[i], s.val[i])
      [] d.kind = "object" ->
           /\ s.kind = "object"
           /\ DOMAIN s.val = DOMAIN d.val
           /\ \A k \in DOMAIN d.val : ShapeKept(d.val[k], s.val[k])
      [] OTHER -> s = d

\* C12: for every data tree D, sanitize(D) has the shape of D at every
\* depth, in both revisions: each mapping keeps exactly its key set, the
\* keys unescaped, each sequence its length and order, each number, boolean
\* and null leaf is unchanged, and each string leaf v has become sanitize(v).
C12_ShapeKept ==
    sanPc = "done" =>
        /\ ShapeKept(sanIn, sanOut.single)
        /\ ShapeKept(sanIn, sanOut.chained)

----------------------------------------------------------------------------
(* The claims about render *)

\* a value the specification calls "not a string, or empty after trimming"
NotANonEmptyString(v) == v.kind # "string" \/ Trim(v.val) = <<>>

\* "null or not a structured value"
NotStructured(v) == v.kind \notin {"object", "array"}

\* the argument as the function body sees it: {} for an omitted one
Given(arg) == IF arg = Undefined THEN EmptyObj ELSE arg

\* the observed call ended in a failure of this kind
FailedWith(out, code) ==
    /\ out.how \in {"threw", "rejected"}
    /\ out.err[1].name = "TemplateRenderError"
    /\ out.err[1].code = code

\* the engine raised during the observed call: in compile, or in the
\* compiled template
EngineRaised(res) ==
    \/ res.compiled # <<>> /\ CompileThrows(res.compiled[1])
    \/ /\ res.invoked # <<>>
       /\ TemplateThrows(last.args[1].val, res.invoked[1][1], res.invoked[1][2])

\* C1: every call render(source, data, options) is decided by the first
\* failing validation, in the order source, data, options: INVALID_SOURCE
\* when source is not a non-empty string, whatever data and options are;
\* otherwise INVALID_DATA when data is null or not structured, whatever
\* options is; otherwise INVALID_OPTIONS when options is null or not
\* structured; each with its own kind, never as TEMPLATE_RENDER_ERROR.
C1_ValidationOrder ==
    last.op = "render" =>
        LET source == last.args[1]
            data   == Given(last.args[2])
            opts   == Given(last.args[3])
            out    == last.res.out
        IN  /\ NotANonEmptyString(source) => FailedWith(out, "INVALID_SOURCE")
            /\ ~NotANonEmptyString(source) /\ NotStructured(data)
                 => FailedWith(out, "INVALID_DATA")
            /\ ~NotANonEmptyString(source) /\ ~NotStructured(data)
               /\ NotStructured(opts)
                 => FailedWith(out, "INVALID_OPTIONS")

\* C2: when the three inputs of a render call pass validation, a failure
\* the engine raises, in compile or in the compiled template, reaches the
\* caller as TEMPLATE_RENDER_ERROR with the engine's failure as its cause;
\* no raw engine failure escapes and no text is returned.
C2_EngineFailureWrapped ==
    /\ last.op = "render"
    /\ ~NotANonEmptyString(last.args[1])
    /\ ~NotStructured(Given(last.args[2]))
    /\ ~NotStructured(Given(last.args[3]))
    /\ EngineRaised(last.res)
    => /\ FailedWith(last.res.out, "TEMPLATE_RENDER_ERROR")
       /\ last.res.out.err[1].cause = <<EngineError>>
       /\ last.res.out.text = <<>>

\* the step is a call of render with the cache and a source that passes
\* validation
CachedRenderCall ==
    /\ revision = "blocking"
    /\ last' # last
    /\ last'.op = "render"
    /\ ~NotANonEmptyString(last'.args[1])

\* C14, as claimed: with the cache, compile is invoked at most once for each
\* distinct source text: the first call with a text s stores its callable,
\* every later call with s finds it and does not compile again (so a call
\* that follows one that compiled s, with the same s, does not compile), no
\* entry is evicted, and a call with another text does not hit the entry
\* of s.
C14_CompiledOncePerSource ==
    [][CachedRenderCall =>
         LET s == last'.args[1].val
         IN  /\ templateCache \subseteq templateCache'
             /\ s \in templateCache'
             /\ s \in templateCache => last'.res.compiled = <<>>
             /\ s \notin templateCache => last'.res.compiled = <<s>>
             /\ last.op = "render" /\ last.res.compiled = <<s>>
                  => last'.res.compiled = <<>>
       ]_vars

\* C14, amended: with the cache, compile is invoked at most once for each
\* distinct source text that compile accepts: a call with a text s that is
\* not in the cache compiles s (and nothing else) and, when compile returns,
\* stores the callable under s; a call with a text that is in the cache
\* does not compile and runs the callable stored for that very text; no
\* entry is evicted or replaced.  A text that compile rejects stores nothing
\* and is compiled again by every call that passes it.
C14_CompiledOncePerAcceptedSource ==
    [][CachedRenderCall =>
         LET s == last'.args[1].val
         IN  /\ templateCache \subseteq templateCache'
             /\ templateCache' \subseteq templateCache \cup {s}
             /\ s \in templateCache =>
                  /\ last'.res.compiled = <<>>
                  /\ ~CompileThrows(s)
             /\ s \notin templateCache => last'.res.compiled = <<s>>
             /\ s \notin templateCache /\ ~CompileThrows(s)
                  => s \in templateCache'
             /\ s \notin templateCache /\ CompileThrows(s)
                  => s \notin templateCache'
             /\ last'.res.out.text # <<>> => last'.res.out.text[1].tpl = s
             /\ last.op = "render" /\ last.res.compiled = <<s>>
                /\ ~CompileThrows(s)
                  => last'.res.compiled = <<>>
       ]_vars

\* a call found its text in a cache that holds another text too, compiled
\* nothing and returned the text of its own callable
C14_Witness ==
    /\ revision = "blocking"
    /\ last.op = "render"
    /\ last.args[1] = Str(SrcOk)
    /\ last.cacheBefore = {SrcOk, SrcRuntime}
    /\ last.res.compiled = <<>>
    /\ last.res.out.text # <<>>
    /\ last.res.out.text[1].tpl = SrcOk
    /\ templateCache = {SrcOk, SrcRuntime}

\* C16: a render call that fails validation has no effect on the cache:
\* when render fails with INVALID_SOURCE, INVALID_DATA or INVALID_OPTIONS,
\* compile was not invoked during the call and the cache holds exactly the
\* entries it held before it.
C16_FailedValidationLeavesCache ==
    /\ last.op = "render"
    /\ \/ FailedWith(last.res.out, "INVALID_SOURCE")
       \/ FailedWith(last.res.out, "INVALID_DATA")
       \/ FailedWith(last.res.out, "INVALID_OPTIONS")
    => /\ last.res.compiled = <<>>
       /\ last.res.cache = last.cacheBefore

----------------------------------------------------------------------------
(* The claims about render_template *)

\* part occurs in message, as consecutive elements
Includes(message, part) ==
    \E i \in 0..(Len(message) - Len(part)) :
        SubSeq(message, i + 1, i + Len(part)) = part

IsTemplateCall == last.op = "render_template"

\* the observed call read a file and the read gave its text
ReadGaveText == last.fsys # <<>> /\ last.fsys[1].kind = "file"

\* the observed call read a file and the read failed with this code
ReadFailedWith(code) == last.fsys # <<>> /\ last.fsys[1].kind = code

\* the observed outcome, whether thrown/returned or delivered by a promise
Outcome == Settled(last.res.out)

\* what render of the loaded revision does with these arguments
RenderOutcome(text, data, opts) ==
    IF revision = "blocking"
    THEN render(text, data, opts, last.cacheBefore).out
    ELSE render_uncached(text, data, opts).out

\* C3: when render_template has read the file, its outcome is exactly the
\* outcome of render(file text, data, options): the same text, or the very
\* same failure, not translated into a file-read or not-found error.
C3_SameAsRender ==
    IsTemplateCall /\ ReadGaveText =>
        Outcome = RenderOutcome(Str(last.fsys[1].text),
                                Given(last.args[2]), Given(last.args[3]))

\* the failure the read primitive raised in the observed call
ReadFailure == ReadFile(last.fsys[1], last.res.reads[1]).err[1]

NonEmptyWins(opts, field, cfg) ==
    IF /\ field \in DOMAIN opts.val
       /\ opts.val[field].kind = "string"
       /\ opts.val[field].val # <<>>
    THEN opts.val[field] ELSE cfg[field]

\* the per-call field whenever it is present, else the configured
PresentWins(opts, field, cfg) ==
    IF field \in DOMAIN opts.val THEN opts.val[field] ELSE cfg[field]

\* C5: when the read fails because the path does not exist, render_template
\* fails with a not-found error whose message includes the resolved path
\* (an absolute path that ends with basename + extension), and render is
\* never invoked for that call.
C5_NotFoundNamesPath ==
    IsTemplateCall /\ ReadFailedWith("ENOENT") =>
        LET path == last.res.reads[1]
            file == last.args[1].val
                    \o NonEmptyWins(Given(last.args[3]), "template_extension",
                                    last.cfg).val
        IN  /\ Outcome.how = "threw"
            /\ Outcome.err[1].message = <<"Template file not found: ">> \o path
            /\ Includes(Outcome.err[1].message, path)
            /\ IsAbsolute(path)
            /\ SubSeq(path, Len(path) - Len(file) + 1, Len(path)) = file
            /\ last.res.renders = <<>>
            /\ last.res.compiled = <<>>

\* a call with a per-call directory met a missing file
C5_Witness ==
    /\ IsTemplateCall
    /\ ReadFailedWith("ENOENT")
    /\ last.args[3] = DirOnly
    /\ Outcome.how = "threw"

\* the calls that passed validation, each with the path it gave the read
\* primitive: the observed one, and those whose read is still pending
ResolvedCalls ==
    (IF IsTemplateCall /\ last.res.reads # <<>>
     THEN {[call |-> last.args, cfg |-> last.cfg,
            path |-> last.res.reads[1]]}
     ELSE {})
    \cup {[call |-> p.call, cfg |-> p.cfg, path |-> p.templateFilename] :
          p \in pending}

\* C6, as claimed: the directory is the per-call field whenever it is
\* present (for any value, the empty string included), the configured one
\* only when it is absent; the extension likewise; the path is the directory
\* joined with basename + extension; with no options given it is the
\* configured values applied to basename.
C6_PresentFieldWins ==
    \A c \in ResolvedCalls :
        c.path = PathResolve(
                    PresentWins(Given(c.call[3]), "template_path", c.cfg).val,
                    c.call[1].val
                    \o PresentWins(Given(c.call[3]), "template_extension",
                                   c.cfg).val)

\* C6, amended: the directory is the per-call field when it is present and
\* a non-empty string, and the configured one when the field is absent,
\* the empty string or null; the extension likewise; the path is the directory joined with
\* basename + extension, made absolute; with no options given it is the
\* configuration in force applied to basename, 'templates' and '.hbs'
\* unless the host has changed it.
C6_NonEmptyFieldWins ==
    \A c \in ResolvedCalls :
        /\ c.path = PathResolve(
                      NonEmptyWins(Given(c.call[3]), "template_path", c.cfg).val,
                      c.call[1].val
                      \o NonEmptyWins(Given(c.call[3]), "template_extension",
                                      c.cfg).val)
        /\ c.call[3] = Undefined =>
             c.path = CWD \o <<"/">> \o c.cfg.template_path.val \o <<"/">>
                      \o c.call[1].val \o c.cfg.template_extension.val
        /\ c.call[3] = Undefined /\ c.cfg = DefaultOptions =>
             c.path = <<"/", "cwd", "/", "templates", "/", "page", ".hbs">>

\* a call gave an empty per-call extension and a per-call directory, after
\* the host had changed the configuration, and has read its file
C6_Witness ==
    /\ IsTemplateCall
    /\ last.res.reads # <<>>
    /\ last.args[3] = DirOnly
    /\ last.cfg.template_path # DefaultOptions.template_path
    /\ last.res.reads[1] = <<"/", "cwd", "/", "X", "/", "page", ".hbs">>

\* C7: render_template validates before any I/O: a basename that is not a
\* non-empty string fails with the basename error; otherwise options that
\* are null or not structured fail with the options error; in both cases no
\* read is attempted, render is not invoked, and the configuration is what
\* it was.
C7_ValidatesBeforeIO ==
    IsTemplateCall =>
        LET quiet == /\ last.res.reads = <<>>
                     /\ last.fsys = <<>>
                     /\ last.res.renders = <<>>
                     /\ last.res.compiled = <<>>
                     /\ options = last.cfg
        IN  /\ NotANonEmptyString(last.args[1]) =>
                 /\ Outcome.how = "threw"
                 /\ Outcome.err[1].message
                      = <<"Invalid basename: must be a non-empty string">>
                 /\ quiet
            /\ ~NotANonEmptyString(last.args[1])
               /\ NotStructured(Given(last.args[3])) =>
                 /\ Outcome.how = "threw"
                 /\ Outcome.err[1].name = "Error"
                 /\ Outcome.err[1].message
                      = <<"Invalid options: must be an object">>
                 /\ quiet

\* a call with a bad basename and null options was refused after the host
\* had changed the configuration
C7_Witness ==
    /\ IsTemplateCall
    /\ last.args[1] = Str(<<" ">>)
    /\ last.args[3] = Null
    /\ options # DefaultOptions
    /\ Outcome.how = "threw"

\* C8: the blocking and the non-blocking render_template have the same
\* observable outcome for every input and every behaviour of the file
\* system and the engine: same validation failures, same path handed to the
\* read primitive, same translation of read failures, same text or render
\* failure; only the delivery (a promise) differs.
C8_RevisionsAgree ==
    IsTemplateCall =>
        \A fsys \in (IF last.fsys = <<>> THEN FileSystems
                     ELSE {last.fsys[1]}) :
            LET other ==
                  IF revision = "blocking"
                  THEN render_template_async(last.args[1], last.args[2],
                                             last.args[3], last.cfg, fsys)
                  ELSE render_template(last.args[1], last.args[2],
                                       last.args[3], last.cfg, {}, fsys)
            IN  /\ Outcome = other.out
                /\ last.res.reads = other.reads

----------------------------------------------------------------------------
(* The claims about the caller's objects *)

\* the step is a call of render or render_template with the host's objects
StoredCall ==
    /\ last' # last
    /\ last'.op \in {"render", "render_template"}

C15_SanitizeTotal ==
    last.op \in {"render", "render_template"} =>
        /\ last.res.sanitize # "raised"
        /\ last.res.out.err # <<>> /\ last.res.out.err[1].cause # <<>>
             => last.res.out.err[1].cause[1].name # "RangeError"

----------------------------------------------------------------------------
(* The claims about overlapping calls *)

\* the path a call resolves under the configuration cfg
ResolvedWith(call, cfg) ==
    PathResolve(NonEmptyWins(Given(call[3]), "template_path", cfg).val,
                call[1].val
                \o NonEmptyWins(Given(call[3]), "template_extension", cfg).val)

\* C17: each render_template call reads the configuration once, at its
\* start, and never writes it.  In the non-blocking revision: a call that
\* starts resolves its path from the configuration of that moment and leaves
\* the pending calls as they are; only the host's assignment changes the
\* configuration, and it touches no pending call; a read that settles was
\* made at, and a missing file is reported with, the path resolved from the
\* configuration as it was when its call started, whatever the
\* configuration is by then.
C17_ConfigurationReadAtStart ==
    [][/\ options' # options =>
            /\ last'.op = "set_options"
            /\ pending' = pending
       /\ \A p \in pending' \ pending :
            /\ p.cfg = options
            /\ p.templateFilename = ResolvedWith(p.call, options)
            /\ pending \subseteq pending'
            /\ options' = options
       /\ \A p \in pending \ pending' :
            /\ last'.op = "render_template"
            /\ last'.args = p.call
            /\ last'.cfg = p.cfg
            /\ last'.res.reads = <<ResolvedWith(p.call, p.cfg)>>
            /\ last'.fsys[1].kind = "ENOENT" =>
                 last'.res.out.err[1].message
                   = <<"Template file not found: ">>
                     \o ResolvedWith(p.call, p.cfg)
            /\ pending' = pending \ {p}
            /\ options' = options
      ]_vars

\* a read has settled, at the path of the configuration its call started
\* under, after the host had changed the configuration and while a call
\* started under the changed configuration was pending
C17_Witness ==
    /\ revision = "nonblocking"
    /\ last.op = "render_template"
    /\ last.res.reads # <<>>
    /\ last.cfg # options
    /\ last.res.reads[1] # ResolvedWith(last.args, options)
    /\ last.fsys[1].kind = "ENOENT"
    /\ \E q \in pending : q.cfg = options /\ q.call = last.args

============================================================================
